---- MODULE Spec2Model ----
(***************************************************************************)
(* Model of contenthandlers.py: the marker codec (regexify_markers,        *)
(* strip_markers), the footnote locator (next_footnote_sup), the location  *)
(* path builder (generate_ancestors) and the sentence segmenter            *)
(* (separate_sentences).                                                   *)
(*                                                                         *)
(* A Python string is a sequence of characters; a character is a one       *)
(* element string.  Characters outside ASCII carry a name: "ELLIPSIS",     *)
(* "ENDASH", "o-umlaut", "o-acute", "u-acute", "a-acute", "thorn".         *)
(* Offsets into strings are 0-based, as in the source.                     *)
(***************************************************************************)
EXTENDS Integers, Sequences, FiniteSets, TLC

VARIABLES
    fn,          \* the function under execution
    pc,          \* its position: "call", a loop label, or "done"
    text,        \* the text argument (elem.text for next_footnote_sup)
    cursor,      \* next_footnote_sup's cursor / the table scan's cursor
    sibling,     \* elem.getnext(): [exists, text]
    strict,      \* the interpreter rejects unknown letter escapes in a template
    elem,        \* generate_ancestors: the node, as its path of child positions
    parent,      \* generate_ancestors: the boundary node
    attrib,      \* generate_ancestors: the nr attribute of each node on elem's path
    content,     \* separate_sentences: the text being encoded and scanned
    html_loc,    \* separate_sentences: start of the table found by the scan
    chunks,      \* separate_sentences: content.split('.')
    index,       \* separate_sentences: super_iter's index into chunks
    collected,   \* separate_sentences: the sentence collected so far
    sens,        \* separate_sentences: the sentences produced so far
    result       \* what the call returned or raised

vars == <<fn, pc, text, cursor, sibling, strict, elem, parent, attrib,
          content, html_loc, chunks, index, collected, sens, result>>

Ret(v) == [kind |-> "return", error |-> "", value |-> v]
Raise(e) == [kind |-> "raise", error |-> e, value |-> <<>>]
NoResult == [kind |-> "none", error |-> "", value |-> <<>>]

(***************************************************************************)
(* Python string primitives.                                               *)
(***************************************************************************)
Digit == {"0", "1", "2", "3", "4", "5", "6", "7", "8", "9"}
Lower == {"a", "b", "c", "d", "e", "f", "g", "h", "i", "j", "k", "l", "m",
          "n", "o", "p", "q", "r", "s", "t", "u", "v", "w", "x", "y", "z",
          "o-umlaut", "o-acute", "u-acute", "a-acute", "thorn"}
Whitespace == {" "}

MinOf(S) == CHOOSE x \in S : \A y \in S : x <= y
MaxOf(S) == CHOOSE x \in S : \A y \in S : x >= y

\* s[i:i+len(sub)] == sub
StartsAt(s, sub, i) ==
    /\ i >= 0
    /\ i + Len(sub) <= Len(s)
    /\ \A k \in 1..Len(sub) : s[i + k] = sub[k]

\* s.find(sub, start)
Find(s, sub, start) ==
    LET hits == {i \in start..(Len(s) - Len(sub)) : StartsAt(s, sub, i)}
    IN  IF hits = {} THEN -1 ELSE MinOf(hits)

\* s.rfind(sub)
RFind(s, sub) ==
    LET hits == {i \in 0..(Len(s) - Len(sub)) : StartsAt(s, sub, i)}
    IN  IF hits = {} THEN -1 ELSE MaxOf(hits)

\* a slice bound, clamped as Python clamps it
Clamp(i, n) == IF i < 0 THEN (IF n + i < 0 THEN 0 ELSE n + i)
               ELSE (IF i > n THEN n ELSE i)

\* s[a:b]
Slice(s, a, b) ==
    LET lo == Clamp(a, Len(s))
        hi == Clamp(b, Len(s))
    IN  IF lo >= hi THEN <<>> ELSE SubSeq(s, lo + 1, hi)

\* s[a:]
SliceFrom(s, a) == Slice(s, a, Len(s))

\* s[i:].replace(old, new): leftmost, non-overlapping
RECURSIVE ReplaceFrom(_, _, _, _)
ReplaceFrom(s, old, new, i) ==
    LET m == Find(s, old, i)
    IN  IF m = -1 THEN SliceFrom(s, i)
        ELSE Slice(s, i, m) \o new \o ReplaceFrom(s, old, new, m + Len(old))

\* s.replace(old, new)
Replace(s, old, new) == ReplaceFrom(s, old, new, 0)

\* s.strip(chars)
StripChars(s, chars) ==
    LET keep == {i \in 1..Len(s) : s[i] \notin chars}
    IN  IF keep = {} THEN <<>> ELSE SubSeq(s, MinOf(keep), MaxOf(keep))

\* s.strip()
Strip(s) == StripChars(s, Whitespace)

\* s.isdigit()
IsDigits(s) == Len(s) > 0 /\ \A i \in 1..Len(s) : s[i] \in Digit

\* s.split(sep) for a one character separator: the pieces between the
\* separators, the ends of the string standing for a separator each
Split(s, sep) ==
    LET seps == {i \in 1..Len(s) : s[i] = sep}
        n == Cardinality(seps)
        At(k) == IF k = 0 THEN 0
                 ELSE IF k = n + 1 THEN Len(s) + 1
                 ELSE CHOOSE i \in seps : Cardinality({j \in seps : j < i}) = k - 1
    IN  [k \in 1..(n + 1) |-> SubSeq(s, At(k - 1) + 1, At(k) - 1)]

(***************************************************************************)
(* The markup literals of the source.                                      *)
(***************************************************************************)
SupStyle == <<" ", "s", "t", "y", "l", "e", "=", "\"", "f", "o", "n", "t", "-",
              "s", "i", "z", "e", ":", "6", "0", "%", "\"">>
\* '<sup style="font-size:60%">'
SupOpen == <<"<", "s", "u", "p">> \o SupStyle \o <<">">>
\* '</sup>'
SupClose == <<"<", "/", "s", "u", "p", ">">>
\* len('<sup style="font-size:60%">') == 27
SupOpenLen == 27

(***************************************************************************)
(* A regular expression of the source, matched at one offset: each step    *)
(* takes the offset reached so far (-1: no match) and gives the next.      *)
(***************************************************************************)
Lit(s, i, lit) == IF i >= 0 /\ StartsAt(s, lit, i) THEN i + Len(lit) ELSE -1
Opt(s, i, c) == IF i >= 0 /\ i < Len(s) /\ s[i + 1] = c THEN i + 1 ELSE i
Digits1(s, i) ==
    IF i >= 0 /\ i < Len(s) /\ s[i + 1] \in Digit
    THEN MinOf({j \in (i + 1)..Len(s) : j = Len(s) \/ s[j + 1] \notin Digit})
    ELSE -1

\* r'\[ ?'
OpenEnd(s, i) == Opt(s, Lit(s, i, <<"[">>), " ")

\* r'\],? <sup style="font-size:60%"> ?\d+\) ?</sup>,? ?'
CloseEnd(s, i) ==
    LET a == Lit(s, Opt(s, Lit(s, i, <<"]">>), ","), <<" ">>)
        b == Digits1(s, Opt(s, Lit(s, a, SupOpen), " "))
        c == Lit(s, Opt(s, Lit(s, b, <<")">>), " "), SupClose)
    IN  Opt(s, Opt(s, c, ","), " ")

\* r'ELLIPSIS <sup style="font-size:60%"> \d+\) </sup>,? ?'
EllipsisEnd(s, i) ==
    LET a == Lit(s, Lit(s, i, <<"ELLIPSIS", " ">>), SupOpen)
        b == Digits1(s, Lit(s, a, <<" ">>))
        c == Lit(s, Lit(s, b, <<")", " ">>), SupClose)
    IN  Opt(s, Opt(s, c, ","), " ")

\* r'<sup style="font-size:60%"> \d+\) </sup>'
SupEnd(s, i) ==
    LET a == Lit(s, Lit(s, i, SupOpen), <<" ">>)
    IN  Lit(s, Lit(s, Digits1(s, a), <<")", " ">>), SupClose)

\* where the named expression ends when matched at offset i
MatchEnd(re, s, i) ==
    CASE re = "open" -> OpenEnd(s, i)
      [] re = "close" -> CloseEnd(s, i)
      [] re = "ellipsis" -> EllipsisEnd(s, i)
      [] re = "sup" -> SupEnd(s, i)

\* re.sub(re, repl, s[i:]): leftmost, non-overlapping
RECURSIVE SubFrom(_, _, _, _)
SubFrom(re, repl, s, i) ==
    LET hits == {j \in i..(Len(s) - 1) : MatchEnd(re, s, j) > j}
    IN  IF hits = {} THEN SliceFrom(s, i)
        ELSE LET m == MinOf(hits)
             IN  Slice(s, i, m) \o repl \o SubFrom(re, repl, s, MatchEnd(re, s, m))

\* re.sub(re, repl, s)
Sub(re, repl, s) == SubFrom(re, repl, s, 0)

(***************************************************************************)
(* MarkerCodec: regexify_markers.                                          *)
(***************************************************************************)
\* r'(\[? ?)?'
OpenRepl == <<"(", "\\", "[", "?", " ", "?", ")", "?">>
\* r'( style="font-size:60%")?'
StyleRepl == <<"(">> \o SupStyle \o <<")", "?">>
\* r'(\],? <sup( style="font-size:60%")?> ?\d+\) ?</sup>)?,? ?'
CloseRepl ==
    <<"(", "\\", "]", ",", "?", " ", "<", "s", "u", "p">> \o StyleRepl
    \o <<">", " ", "?", "\\", "d", "+", "\\", ")", " ", "?">> \o SupClose
    \o <<")", "?", ",", "?", " ", "?">>
\* r'(ELLIPSIS <sup( style="font-size:60%")?> \d+\) </sup>)?,? ?'
EllipsisRepl ==
    <<"(", "ELLIPSIS", " ", "<", "s", "u", "p">> \o StyleRepl
    \o <<">", " ", "\\", "d", "+", "\\", ")", " ">> \o SupClose
    \o <<")", "?", ",", "?", " ", "?">>

\* re.sub(r'\[ ?', r'(\[? ?)?', text)
SubOpen(s) == Sub("open", OpenRepl, s)

\* re.sub(r'\],? <sup ...> ?\d+\) ?</sup>,? ?', r'(\],? <sup(...)?> ...)?,? ?', text)
SubClose(s) == Sub("close", CloseRepl, s)

\* re.sub(r'ELLIPSIS <sup ...> \d+\) </sup>,? ?', r'(ELLIPSIS <sup(...)?> ...)?,? ?', text)
SubEllipsis(s) == Sub("ellipsis", EllipsisRepl, s)

\* The pattern regexify_markers builds when the interpreter keeps the \d of
\* the replacement templates as it stands.
RegexifyPattern(s) ==
    Replace(SubEllipsis(SubClose(SubOpen(s))), <<" ", ",">>, <<" ", "?", ",">>)

\* regexify_markers(text).  The templates of the second and third re.sub hold
\* the escape \d: an interpreter that rejects unknown letter escapes in a
\* template raises re.error there, whatever the text.
regexify_markers(s, rejects) ==
    IF rejects THEN Raise("re.error") ELSE Ret(RegexifyPattern(s))

(***************************************************************************)
(* MarkerCodec: strip_markers.                                             *)
(***************************************************************************)
\* re.sub(r'<sup style="font-size:60%"> \d+\) </sup>', '', text)
RemoveSups(s) == Sub("sup", <<>>, s)

\* while text.find('  ') > -1: text = text.replace('  ', ' ')
RECURSIVE CollapseSpaces(_)
CollapseSpaces(s) ==
    IF Find(s, <<" ", " ">>, 0) > -1
    THEN CollapseSpaces(Replace(s, <<" ", " ">>, <<" ">>))
    ELSE s

strip_markers(s) ==
    LET t1 == Replace(s, <<"ELLIPSIS">>, <<>>)
        t2 == Replace(t1, <<"[">>, <<>>)
        t3 == Replace(t2, <<"]">>, <<>>)
        t4 == RemoveSups(t3)
        t5 == CollapseSpaces(t4)
    IN  Replace(t5, <<" ", ",">>, <<",">>)

(***************************************************************************)
(* What a pattern built by regexify_markers matches, as the re module      *)
(* matches it: literals, the escapes \[ \] \) and \d, groups, and the      *)
(* quantifiers ? and +.                                                    *)
(***************************************************************************)
Meta == {"(", ")", "\\", "?", "+"}

\* the character at offset i of p follows an odd run of backslashes
Escaped(p, i) ==
    LET run == MaxOf({k \in 0..i : \A j \in 1..k : p[i - j + 1] = "\\"})
    IN  run % 2 = 1

\* the unescaped occurrences of ch in p[lo:hi]
Bare(p, ch, lo, hi) ==
    Cardinality({i \in lo..(hi - 1) : p[i + 1] = ch /\ ~Escaped(p, i)})

\* re.compile(p) raises "unbalanced parenthesis" unless every unescaped
\* parenthesis is paired.
Compiles(p) ==
    /\ Bare(p, "(", 0, Len(p)) = Bare(p, ")", 0, Len(p))
    /\ \A i \in 0..Len(p) : Bare(p, "(", 0, i) >= Bare(p, ")", 0, i)

\* the offset of the ")" that closes the "(" at offset i
CloseParen(p, i) ==
    MinOf({j \in (i + 1)..(Len(p) - 1) :
              /\ p[j + 1] = ")"
              /\ ~Escaped(p, j)
              /\ Bare(p, "(", i + 1, j) = Bare(p, ")", i + 1, j)})

\* the character ch matches the one-character atom at offset i of p
CharMatch(p, i, ch) ==
    IF p[i + 1] = "\\"
    THEN (IF p[i + 2] = "d" THEN ch \in Digit ELSE ch = p[i + 2])
    ELSE ch = p[i + 1]

\* the offsets of t reached from the offsets S by the atom at offset i of p
CharStep(p, i, t, S) ==
    {j + 1 : j \in {k \in S : k < Len(t) /\ CharMatch(p, i, t[k + 1])}}

RECURSIVE PlusEnds(_, _, _, _, _)
PlusEnds(p, i, t, S, acc) ==
    LET next == CharStep(p, i, t, S) \ acc
    IN  IF next = {} THEN acc ELSE PlusEnds(p, i, t, next, acc \cup next)

\* where the run of plain characters that starts at offset lo of p ends: at
\* the next special character, and before a character that is quantified
LiteralEnd(p, lo, hi) ==
    LET stop == MinOf({j \in lo..hi : j = hi \/ p[j + 1] \in Meta})
    IN  IF stop < hi /\ p[stop + 1] \in {"?", "+"} /\ stop > lo
        THEN stop - 1 ELSE stop

\* the offsets of t reached from the offsets S by p[lo:hi]
RECURSIVE Ends(_, _, _, _, _)
Ends(p, lo, hi, t, S) ==
    IF lo >= hi \/ S = {} THEN S
    ELSE IF LiteralEnd(p, lo, hi) > lo
    THEN LET lit == SubSeq(p, lo + 1, LiteralEnd(p, lo, hi))
         IN  Ends(p, LiteralEnd(p, lo, hi), hi, t,
                  {j + Len(lit) : j \in {k \in S : StartsAt(t, lit, k)}})
    ELSE LET group == p[lo + 1] = "("
             after == IF group THEN CloseParen(p, lo) + 1
                      ELSE IF p[lo + 1] = "\\" THEN lo + 2 ELSE lo + 1
             quant == IF after < hi THEN p[after + 1] ELSE ""
             once == IF group THEN Ends(p, lo + 1, after - 1, t, S)
                     ELSE CharStep(p, lo, t, S)
         IN  IF quant = "?" THEN Ends(p, after + 1, hi, t, S \cup once)
             ELSE IF quant = "+"
                  THEN Ends(p, after + 1, hi, t, PlusEnds(p, lo, t, S, {}))
             ELSE Ends(p, after, hi, t, once)

\* re.search(p, t) finds a match (re.match and re.fullmatch ask for more)
Search(p, t) == Compiles(p) /\ Ends(p, 0, Len(p), t, 0..Len(t)) # {}

(***************************************************************************)
(* FootnoteLocator: next_footnote_sup.                                     *)
(***************************************************************************)
\* num_text.strip().strip(')')
FootnoteNum(num_text) == StripChars(Strip(num_text), {")"})

\* next_footnote_sup(elem, cursor); sib is elem.getnext(), absent when the
\* element is the last of its parent (getnext() gives None, None.text raises).
next_footnote_sup(elem_text, cur, sib) ==
    IF Find(elem_text, SupOpen, cur) > -1
    THEN LET num_start == Find(elem_text, SupOpen, cur) + SupOpenLen
             num_end == Find(elem_text, SupClose, cur)
         IN  Ret(FootnoteNum(Slice(elem_text, num_start, num_end)))
    ELSE IF ~sib.exists THEN Raise("AttributeError")
    ELSE LET num_start == Find(sib.text, SupOpen, 0) + SupOpenLen
             num_end == Find(sib.text, SupClose, 0)
         IN  Ret(FootnoteNum(Slice(sib.text, num_start, num_end)))

(***************************************************************************)
(* LocationPathBuilder: generate_ancestors.  A node is the sequence of     *)
(* child positions that leads to it from the root; its ancestors are its   *)
(* proper prefixes.  attrs[d + 1] is the attribute dictionary of the node  *)
(* at depth d on the way to elem: [nr |-> value], or <<>> without nr.      *)
(***************************************************************************)
\* the tag of a node: the document's nesting of law, art, subart, sen
TagAtDepth(d) ==
    CASE d = 0 -> "law"
      [] d = 1 -> "art"
      [] d = 2 -> "subart"
      [] d = 3 -> "sen"
      [] OTHER -> "numart"

\* str(n) of a sibling position
Str(n) == <<"1", "2", "3", "4", "5", "6", "7", "8", "9">>[n]

\* utils.order_among_siblings(elem): the node's 1-based position among its
\* siblings
order_among_siblings(node) == node[Len(node)]

\* for ancestor in elem.iterancestors(): ... ; from the ancestor at depth d
\* outward, acc being the list built so far
RECURSIVE WalkAncestors(_, _, _, _, _)
WalkAncestors(node, boundary, attrs, d, acc) ==
    IF d < 0 THEN Ret(acc)
    ELSE IF "nr" \notin DOMAIN attrs[d + 1] THEN Raise("KeyError")
    ELSE LET inserted == <<<<TagAtDepth(d), attrs[d + 1].nr>>>> \o acc
         IN  IF SubSeq(node, 1, d) = boundary THEN Ret(inserted)
             ELSE WalkAncestors(node, boundary, attrs, d - 1, inserted)

\* The walk without its break at the boundary.
WalkPastBoundary(node, boundary, attrs) ==
    WalkAncestors(node, <<0>>, attrs, Len(node) - 1, <<>>)

\* the walk of generate_ancestors, from elem's parent outward
AncestorWalk(node, boundary, attrs) ==
    WalkAncestors(node, boundary, attrs, Len(node) - 1, <<>>)

generate_ancestors(node, boundary, attrs) ==
    LET walk == AncestorWalk(node, boundary, attrs)
        own == IF "nr" \in DOMAIN attrs[Len(node) + 1]
               THEN <<TagAtDepth(Len(node))>>
               ELSE <<TagAtDepth(Len(node)), Str(order_among_siblings(node))>>
    IN  IF walk.kind = "raise" THEN walk
        ELSE Ret(walk.value \o <<own>>)

(***************************************************************************)
(* SentenceSegmenter: separate_sentences.                                  *)
(***************************************************************************)
ReferenceShorthands ==
    {<<"g", "r">>, <<"m", "g", "r">>, <<"m", "a-acute", "l", "s", "l">>,
     <<"t", "o-umlaut", "l", "u", "l">>, <<"s", "t", "a", "f">>}

RecognizedShorts ==
    << <<"t", ".", "d", ".">>,
       <<"thorn", ".", "m", ".", "t", ".">>,
       <<"s", "b", "r", ".">>,
       <<"n", "r", ".">>,
       <<"s", "k", "v", ".">>,
       <<"m", ".", "a", ".">>,
       <<"a", ".", "m", ".", "k", ".">>,
       <<"thorn", ".", "e", ".">>,
       <<"o", ".", "f", "l">> >>

\* '[DOT]'
Dot == <<"[", "D", "O", "T", "]">>
\* '<table width="100%">'
TableOpen == <<"<", "t", "a", "b", "l", "e", " ", "w", "i", "d", "t", "h", "=",
               "\"", "1", "0", "0", "%", "\"", ">">>
\* '</table>'
TableClose == <<"<", "/", "t", "a", "b", "l", "e", ">">>

\* for r in recognized_shorts: content = content.replace(r, r.replace('.', '[DOT]'))
RECURSIVE EncodeShortsFrom(_, _)
EncodeShortsFrom(c, k) ==
    IF k > Len(RecognizedShorts) THEN c
    ELSE LET r == RecognizedShorts[k]
         IN  EncodeShortsFrom(Replace(c, r, Replace(r, <<".">>, Dot)), k + 1)

EncodeShorts(c) == EncodeShortsFrom(c, 1)

\* super_iter.peek(n), after __next__ moved the index past the current chunk:
\* the chunk n - 1 places after the index, None past the end
Peek(coll, idx, n) ==
    LET peek_index == idx - 1 + n
    IN  IF peek_index >= Len(coll) \/ peek_index < 0
        THEN [none |-> TRUE, value |-> <<>>]
        ELSE [none |-> FALSE, value |-> coll[peek_index + 1]]

\* chunk[chunk.rfind(' ')+1:]
LastWord(chunk) == SliceFrom(chunk, RFind(chunk, <<" ">>) + 1)

ContinuationSymbols == {",", ";", "ENDASH", "-", "[", "]", "ELLIPSIS"}

\* next_chunk2.strip() is evaluated on None: the reference rule reaches
\* peek(2) past the end with a numeric next chunk
ChunkRaises(chunk, next1, next2) ==
    /\ ~next1.none
    /\ LastWord(chunk) \in ReferenceShorthands
    /\ IsDigits(Strip(strip_markers(next1.value)))
    /\ next2.none

\* the value of split after the rules of the loop body
SplitAfter(chunk, next1, next2) ==
    IF next1.none THEN TRUE
    ELSE LET next_chunk == strip_markers(next1.value)
             lower == /\ Len(next_chunk) > 1
                      /\ next_chunk[1] = " "
                      /\ next_chunk[2] \in Lower
             symbol == Len(next_chunk) > 0 /\ next_chunk[1] \in ContinuationSymbols
             number == Len(next_chunk) > 0 /\ next_chunk[1] \in Digit
             reference == /\ LastWord(chunk) \in ReferenceShorthands
                          /\ IsDigits(Strip(next_chunk))
                          /\ Strip(next2.value) \in ReferenceShorthands
         IN  ~(lower \/ symbol \/ number \/ reference)

\* if content and content[-1] != '.' and sens[-1][-1] == '.':
\*     sens[-1] = sens[-1].strip('.')
FixTrailingDot(c, ss) ==
    IF c = <<>> \/ c[Len(c)] = "." THEN Ret(ss)
    ELSE IF ss = <<>> \/ ss[Len(ss)] = <<>> THEN Raise("IndexError")
    ELSE LET last == ss[Len(ss)]
         IN  IF last[Len(last)] = "."
             THEN Ret([ss EXCEPT ![Len(ss)] = StripChars(last, {"."})])
             ELSE Ret(ss)

(***************************************************************************)
(* The inputs.                                                             *)
(***************************************************************************)
MaxCodecParts == 3
MaxFootnoteParts == 2
MaxSiblingParts == 1
MaxDepth == 3
MaxSentenceParts == 3
MaxContentLen == 200

\* the concatenations of at most n of the parts
RECURSIVE Concats(_, _)
Concats(parts, n) ==
    IF n = 0 THEN {<<>>}
    ELSE LET shorter == Concats(parts, n - 1)
         IN  shorter \cup {s \o p : s \in shorter, p \in parts}

\* a superscript footnote annotation around the given inner text
Annotation(inner) == SupOpen \o inner \o SupClose

CodecParts ==
    {<<"a">>, <<" ">>, <<",">>, <<"[">>, <<"]">>, <<")">>, <<"ELLIPSIS">>,
     Annotation(<<" ", "1", ")", " ">>),
     Annotation(<<" ", " ", "1", ")", " ">>)}

FootnoteParts ==
    {<<"a">>, <<"]", " ">>,
     Annotation(<<" ", "1", ")", " ">>),
     Annotation(<<" ", "2", "3", ")", " ">>)}

SiblingParts ==
    {<<"a">>, Annotation(<<" ", "7", ")", " ">>), <<"b">> \o Annotation(<<" ", "8", ")", " ">>)}

ChildPositions == {1, 2}
NrValues == {"1", "5"}

Table == TableOpen \o <<"x", ".", "y">> \o TableClose

SentenceParts ==
    {<<"a">>, <<"B">>, <<" ">>, <<".">>, <<",">>, <<"5">>, <<"g", "r">>,
     <<"t", ".", "d", ".">>, Table, TableOpen}

CrossReferenceText ==
    <<"S", "b", "r", ".", " ", "3", ".", " ", "m", "g", "r", ".", " ", "4", ".",
      " ", "t", "o-umlaut", "l", "u", "l", ".", " ", "1", ".", " ", "g", "r", ".",
      " ", "s", "k", "u", "l", "u", " ", "m", "e", "n", "n", " ", "f", "a", "r",
      "a", ".">>

SampleTexts ==
    {CrossReferenceText,
     <<"s">> \o Tail(CrossReferenceText),
     <<"H", "a", "n", "n", " ", "f", "o-acute", "r", ".", " ", "H", "u-acute",
       "n", " ", "k", "o", "m", ".">>,
     <<"1", ".", " ", "g", "r", ".", " ", "5">>,
     <<"s", "k", "u", "l", "u", " ", "m", "e", "n", "n">> \o TableOpen
        \o <<"x", ".", "y">>,
     <<"B", ".", " ">> \o Table \o <<" ", "a", ".">>}

SentenceTexts == SampleTexts \cup Concats(SentenceParts, MaxSentenceParts)

(***************************************************************************)
(* The calls.                                                              *)
(***************************************************************************)
NoSibling == [exists |-> FALSE, text |-> <<>>]

Idle ==
    /\ cursor = 0
    /\ sibling = NoSibling
    /\ strict = FALSE
    /\ elem = <<>>
    /\ parent = <<>>
    /\ attrib = <<>>
    /\ content = <<>>
    /\ html_loc = -1
    /\ chunks = <<>>
    /\ index = 0
    /\ collected = <<>>
    /\ sens = <<>>
    /\ result = NoResult

InitRegexify ==
    /\ fn = "regexify_markers"
    /\ pc = "call"
    /\ text \in Concats(CodecParts, MaxCodecParts)
    /\ cursor = 0
    /\ sibling = NoSibling
    /\ strict \in BOOLEAN
    /\ elem = <<>>
    /\ parent = <<>>
    /\ attrib = <<>>
    /\ content = <<>>
    /\ html_loc = -1
    /\ chunks = <<>>
    /\ index = 0
    /\ collected = <<>>
    /\ sens = <<>>
    /\ result = NoResult

InitStrip ==
    /\ fn = "strip_markers"
    /\ pc = "call"
    /\ text \in Concats(CodecParts, MaxCodecParts)
    /\ Idle

InitFootnote ==
    /\ fn = "next_footnote_sup"
    /\ pc = "call"
    /\ text \in Concats(FootnoteParts, MaxFootnoteParts)
    /\ cursor \in 0..Len(text)
    /\ sibling \in {NoSibling}
          \cup {[exists |-> TRUE, text |-> t] : t \in Concats(SiblingParts, MaxSiblingParts)}
    /\ strict = FALSE
    /\ elem = <<>>
    /\ parent = <<>>
    /\ attrib = <<>>
    /\ content = <<>>
    /\ html_loc = -1
    /\ chunks = <<>>
    /\ index = 0
    /\ collected = <<>>
    /\ sens = <<>>
    /\ result = NoResult

\* the nodes at depth lo..hi
NodesBetween(lo, hi) ==
    UNION {[1..d -> ChildPositions] : d \in lo..hi}

AttribChoices == {<<>>} \cup {[nr |-> v] : v \in NrValues}

InitAncestors ==
    /\ fn = "generate_ancestors"
    /\ pc = "call"
    /\ text = <<>>
    /\ cursor = 0
    /\ sibling = NoSibling
    /\ strict = FALSE
    /\ elem \in NodesBetween(1, MaxDepth)
    /\ parent \in NodesBetween(0, MaxDepth)
    /\ attrib \in [1..(Len(elem) + 1) -> AttribChoices]
    /\ content = <<>>
    /\ html_loc = -1
    /\ chunks = <<>>
    /\ index = 0
    /\ collected = <<>>
    /\ sens = <<>>
    /\ result = NoResult

InitSentences ==
    /\ fn = "separate_sentences"
    /\ pc = "call"
    /\ text \in SentenceTexts
    /\ Idle

CallRegexify ==
    /\ fn = "regexify_markers"
    /\ pc = "call"
    /\ pc' = "done"
    /\ result' = regexify_markers(text, strict)
    /\ UNCHANGED <<fn, text, cursor, sibling, strict, elem, parent, attrib,
                   content, html_loc, chunks, index, collected, sens>>

CallStrip ==
    /\ fn = "strip_markers"
    /\ pc = "call"
    /\ pc' = "done"
    /\ result' = Ret(strip_markers(text))
    /\ UNCHANGED <<fn, text, cursor, sibling, strict, elem, parent, attrib,
                   content, html_loc, chunks, index, collected, sens>>

\* strip_markers applied to what it returned
CallStripAgain ==
    /\ fn = "strip_markers"
    /\ pc = "done"
    /\ pc' = "again"
    /\ text' = result.value
    /\ result' = Ret(strip_markers(result.value))
    /\ UNCHANGED <<fn, cursor, sibling, strict, elem, parent, attrib,
                   content, html_loc, chunks, index, collected, sens>>

CallFootnote ==
    /\ fn = "next_footnote_sup"
    /\ pc = "call"
    /\ pc' = "done"
    /\ result' = next_footnote_sup(text, cursor, sibling)
    /\ UNCHANGED <<fn, text, cursor, sibling, strict, elem, parent, attrib,
                   content, html_loc, chunks, index, collected, sens>>

CallAncestors ==
    /\ fn = "generate_ancestors"
    /\ pc = "call"
    /\ pc' = "done"
    /\ result' = generate_ancestors(elem, parent, attrib)
    /\ UNCHANGED <<fn, text, cursor, sibling, strict, elem, parent, attrib,
                   content, html_loc, chunks, index, collected, sens>>

\* separate_sentences up to the first search for a table
SepEncode ==
    /\ fn = "separate_sentences"
    /\ pc = "call"
    /\ pc' = "scan"
    /\ content' = EncodeShorts(text)
    /\ cursor' = 0
    /\ html_loc' = Find(content', TableOpen, 0)
    /\ UNCHANGED <<fn, text, sibling, strict, elem, parent, attrib,
                   chunks, index, collected, sens, result>>

\* one pass of: while html_loc > -1
SepScanPass ==
    /\ fn = "separate_sentences"
    /\ pc = "scan"
    /\ html_loc > -1
    /\ Len(content) <= MaxContentLen
    /\ LET html_end_loc == Find(content, TableClose, cursor) + Len(TableClose)
           table_content ==
               Replace(Slice(content, html_loc, html_end_loc), <<".">>, Dot)
       IN  content' = Slice(content, 0, html_loc) \o table_content
                         \o SliceFrom(content, html_end_loc)
    /\ cursor' = html_loc + 1
    /\ html_loc' = Find(content', TableOpen, cursor')
    /\ UNCHANGED <<fn, pc, text, sibling, strict, elem, parent, attrib,
                   chunks, index, collected, sens, result>>

\* the scan is over: chunks = super_iter(content.split('.'))
SepSplit ==
    /\ fn = "separate_sentences"
    /\ pc = "scan"
    /\ html_loc = -1
    /\ pc' = "loop"
    /\ chunks' = Split(content, ".")
    /\ index' = 0
    /\ collected' = <<>>
    /\ UNCHANGED <<fn, text, cursor, sibling, strict, elem, parent, attrib,
                   content, html_loc, sens, result>>

\* for chunk in chunks: if chunk == '': continue
SepSkipChunk ==
    /\ fn = "separate_sentences"
    /\ pc = "loop"
    /\ index < Len(chunks)
    /\ chunks[index + 1] = <<>>
    /\ index' = index + 1
    /\ UNCHANGED <<fn, pc, text, cursor, sibling, strict, elem, parent, attrib,
                   content, html_loc, chunks, collected, sens, result>>

\* for chunk in chunks: the body of the loop for a chunk that is not empty
SepChunk ==
    /\ fn = "separate_sentences"
    /\ pc = "loop"
    /\ index < Len(chunks)
    /\ chunks[index + 1] # <<>>
    /\ index' = index + 1
    /\ LET chunk == chunks[index + 1]
           next1 == Peek(chunks, index + 1, 1)
           next2 == Peek(chunks, index + 1, 2)
           sentence == collected \o chunk \o <<".">>
       IN  IF ChunkRaises(chunk, next1, next2)
           THEN /\ pc' = "done"
                /\ result' = Raise("AttributeError")
                /\ collected' = collected \o chunk
                /\ sens' = sens
           ELSE /\ pc' = pc
                /\ result' = result
                /\ IF SplitAfter(chunk, next1, next2)
                   THEN /\ sens' = Append(sens, Strip(Replace(sentence, Dot, <<".">>)))
                        /\ collected' = <<>>
                   ELSE /\ sens' = sens
                        /\ collected' = sentence
    /\ UNCHANGED <<fn, text, cursor, sibling, strict, elem, parent, attrib,
                   content, html_loc, chunks>>

\* the loop is over: the trailing dot correction and the return
SepReturn ==
    /\ fn = "separate_sentences"
    /\ pc = "loop"
    /\ index >= Len(chunks)
    /\ pc' = "done"
    /\ result' = FixTrailingDot(content, sens)
    /\ sens' = result'.value
    /\ UNCHANGED <<fn, text, cursor, sibling, strict, elem, parent, attrib,
                   content, html_loc, chunks, index, collected>>

(***************************************************************************)
(* The specifications: one per component, and the whole module.            *)
(***************************************************************************)
InitCodec == InitRegexify \/ InitStrip
NextCodec == CallRegexify \/ CallStrip \/ CallStripAgain
SpecCodec == InitCodec /\ [][NextCodec]_vars

NextFootnote == CallFootnote
SpecFootnote == InitFootnote /\ [][NextFootnote]_vars

NextAncestors == CallAncestors
SpecAncestors == InitAncestors /\ [][NextAncestors]_vars

NextSentences ==
    SepEncode \/ SepScanPass \/ SepSplit \/ SepSkipChunk \/ SepChunk \/ SepReturn
SpecSentences == InitSentences /\ [][NextSentences]_vars

Init == InitCodec \/ InitFootnote \/ InitAncestors \/ InitSentences
Next == NextCodec \/ NextFootnote \/ NextAncestors \/ NextSentences
Spec == Init /\ [][Next]_vars

(***************************************************************************)
(* What the claims speak of, stated apart from the code.                   *)
(***************************************************************************)
\* the offsets at or after from where a footnote annotation starts
AnnotationStarts(s, from) == {i \in from..(Len(s) - 1) : SupEnd(s, i) > i}

\* the digit sequence of the first annotation at or after from
FirstAnnotationNumber(s, from) ==
    LET digits == MinOf(AnnotationStarts(s, from)) + Len(SupOpen) + 1
    IN  Slice(s, digits, Digits1(s, digits))

\* parent is a proper ancestor of elem and every ancestor up to it carries nr
BoundaryIsAncestor ==
    /\ Len(parent) < Len(elem)
    /\ SubSeq(elem, 1, Len(parent)) = parent
    /\ \A d \in Len(parent)..(Len(elem) - 1) : "nr" \in DOMAIN attrib[d + 1]

\* every table start is followed by a table end of its own
WellFormedTables(s) ==
    \A h \in 0..(Len(s) - 1) :
        StartsAt(s, TableOpen, h) =>
            \E e \in (h + 1)..(Len(s) - 1) :
                /\ StartsAt(s, TableClose, e)
                /\ \A k \in (h + 1)..e : ~StartsAt(s, TableOpen, k)

\* the offset after the table that starts at h
TableEnd(s, h) == Find(s, TableClose, h) + Len(TableClose)

\* s[i:] with the dots of every table replaced by the placeholder
RECURSIVE ProtectFrom(_, _)
ProtectFrom(s, i) ==
    LET h == Find(s, TableOpen, i)
    IN  IF h = -1 THEN SliceFrom(s, i)
        ELSE Slice(s, i, h)
             \o Replace(Slice(s, h, TableEnd(s, h)), <<".">>, Dot)
             \o ProtectFrom(s, TableEnd(s, h))

\* ss with one trailing dot taken off its last sentence, if it ends with one
DropTrailingDot(ss) ==
    IF ss = <<>> THEN ss
    ELSE LET last == ss[Len(ss)]
         IN  IF last # <<>> /\ last[Len(last)] = "."
             THEN [ss EXCEPT ![Len(ss)] = SubSeq(last, 1, Len(last) - 1)]
             ELSE ss

(***************************************************************************)
(* The claims.                                                             *)
(***************************************************************************)
\* C1: separate_sentences on "Sbr. 3. mgr. 4. tolul. 1. gr. skulu menn fara."
\* returns exactly one sentence, the whole input.
C1_CrossReferenceOneSentence ==
    (fn = "separate_sentences" /\ pc = "done" /\ text = CrossReferenceText)
        => result = Ret(<<CrossReferenceText>>)

\* C2: a pattern returned by regexify_markers matches (re.search finds it in)
\* the text it was built from and that text with its markers stripped.
C2_PatternMatchesBoth ==
    (fn = "regexify_markers" /\ pc = "done" /\ result.kind = "return")
        => /\ Search(result.value, text)
           /\ Search(result.value, strip_markers(text))

\* C3: strip_markers is idempotent: applied to its own result (held in text)
\* it returns that result unchanged.
C3_StripIdempotent ==
    (fn = "strip_markers" /\ pc = "again") => result = Ret(text)

\* C4: next_footnote_sup returns the digits of the first annotation at or
\* after the cursor in the element's text, and when there is none, of the
\* first annotation of the next sibling's text.
C4_NextFootnoteNumber ==
    (fn = "next_footnote_sup" /\ pc = "done") =>
        IF AnnotationStarts(text, cursor) # {}
        THEN result = Ret(FirstAnnotationNumber(text, cursor))
        ELSE (sibling.exists /\ AnnotationStarts(sibling.text, 0) # {})
                => result = Ret(FirstAnnotationNumber(sibling.text, 0))

\* C5: with no annotation from the cursor on and none in the next sibling's
\* text, next_footnote_sup fails; it returns no value.
C5_NotFoundFails ==
    (/\ fn = "next_footnote_sup"
     /\ pc = "done"
     /\ AnnotationStarts(text, cursor) = {}
     /\ AnnotationStarts(sibling.text, 0) = {})
        => result.kind = "raise"

\* C6: for a boundary that is a proper ancestor of the node, all ancestors up
\* to it carrying nr, generate_ancestors returns the ancestors from the
\* boundary down to the node's parent, each once as (tag, nr), then one entry
\* for the node itself, and nothing above the boundary.
C6_PathFromBoundary ==
    (fn = "generate_ancestors" /\ pc = "done" /\ BoundaryIsAncestor) =>
        LET n == Len(elem) - Len(parent)
            path == result.value
        IN  /\ result.kind = "return"
            /\ Len(path) = n + 1
            /\ \A i \in 1..n :
                   path[i] = <<TagAtDepth(Len(parent) + i - 1),
                               attrib[Len(parent) + i].nr>>
            /\ path[n + 1][1] = TagAtDepth(Len(elem))
            /\ "nr" \notin DOMAIN attrib[Len(elem) + 1]
                   => path[n + 1] = <<TagAtDepth(Len(elem)), Str(elem[Len(elem)])>>

\* C6 witness: art[nr=5] > subart[nr=1] > sen, sen the first child without
\* nr, boundary art: the call returned [(art,5), (subart,1), (sen,1)].
C6_Witness ==
    /\ fn = "generate_ancestors"
    /\ pc = "done"
    /\ elem = <<1, 1, 1>>
    /\ parent = <<1>>
    /\ attrib = <<[nr |-> "1"], [nr |-> "5"], [nr |-> "1"], <<>> >>
    /\ result = Ret(<< <<"art", "5">>, <<"subart", "1">>, <<"sen", "1">> >>)

\* C7: the table scan never makes the text longer than the placeholder makes
\* it by standing for every one of its characters.
C7_ScanBounded ==
    (fn = "separate_sentences" /\ pc = "scan")
        => Len(content) <= Len(Dot) * Len(text)

\* C8: separate_sentences returns for every text; it never raises.
C8_NeverRaises ==
    fn = "separate_sentences" => result.kind # "raise"

\* C9: on return, the last sentence loses exactly one trailing dot when the
\* input text does not end with a dot, and the sentences are left as they are
\* when it does.
C9_TrailingDot ==
    [][(/\ fn = "separate_sentences"
        /\ pc = "loop"
        /\ pc' = "done"
        /\ result'.kind = "return")
          => IF text # <<>> /\ text[Len(text)] # "."
             THEN sens' = DropTrailingDot(sens)
             ELSE sens' = sens]_vars

\* C10: when every table start has a table end of its own, the scan replaces
\* the dots inside the tables and changes nothing else, and every table of the
\* text lies whole inside one returned sentence.
C10_TablesProtected ==
    (fn = "separate_sentences" /\ WellFormedTables(text)) =>
        /\ pc = "loop" => content = ProtectFrom(EncodeShorts(text), 0)
        /\ (pc = "done" /\ result.kind = "return") =>
               \A h \in 0..(Len(text) - 1) :
                   StartsAt(text, TableOpen, h) =>
                       \E k \in 1..Len(sens) :
                           Find(sens[k], Slice(text, h, TableEnd(text, h)), 0) > -1

====
